---- MODULE Spec2Model ----
(***************************************************************************)
(* Morpheus (lib.go): a service registry, TTL-backed discovery and a       *)
(* request/response protocol over the publish/subscribe topics of a shared *)
(* key/value store.                                                        *)
(*                                                                         *)
(* Strings that the code splits or joins on ":" (service names, store      *)
(* keys, topics) are sequences of ":"-free segments: "morpheus:service:a"  *)
(* is <<"morpheus", "service", "a">>, fmt.Sprintf("%s:%s", x, y) is        *)
(* x \o y and strings.Split(k, ":") is k itself.  Route prefixes and       *)
(* request paths are sequences of characters.  Time is counted in whole    *)
(* seconds by the action Tick.                                             *)
(***************************************************************************)
EXTENDS Naturals, Sequences, FiniteSets, TLC

VARIABLES
    running,    \* the process holding this Morpheus value has not died
    Services,   \* Morpheus.Services: name -> (id -> <<name, id>>)
    svcs,       \* the Service values built by RegisterService, by <<name, id>>
    store,      \* the shared store: key -> [val, ttl]
    tasks,      \* Morpheus.Scheduler: task id -> [svc, timer, missed]
    loops,      \* dispatch goroutines: <<name, id>> -> [pc, handler, inbox, busy, errors]
    reqs,       \* requests sent by Message, by MsgId: subscription, waiter, timer, caller
    published,  \* history: every Publish so far, as [topic, wire]
    handled,    \* history: handler invocations, as [svc, msg]
    removed,    \* history: <<name, id>> -> requests sent before Services.Remove was called
    ret         \* what the last call of the API returned

vars == <<running, Services, svcs, store, tasks, loops, reqs, published, handled,
          removed, ret>>

(***************************************************************************)
(* Program constants and the bounds of the model.                          *)
(***************************************************************************)
DefaultTTL == 5
DefaultHBInterval == 2

MaxServices == 2        \* services constructed, in DiscoverySpec
MaxReqs == 2            \* requests sent (Message with responseTo = nil), in RPCSpec
SoloServices == 1       \* services constructed, in Spec, RPCSpec and FairCallSpec
SoloReqs == 1           \* requests sent, in Spec and FairCallSpec
MaxTimeout == 2         \* largest timeout given to RPCWithTimeout, in seconds
MissedCap == 2          \* consecutive missed heartbeat cycles are counted up to this
KeepReceiving == 3      \* values received by a caller that keeps receiving from retch

Names == {<<"a">>, <<"a", "b">>}            \* "a" and "a:b"
Ids == {"i1", "i2"}                         \* values of randomId()
IdOrder == <<"i1", "i2">>                   \* the string order of Ids
Ports == {8080}
Payloads == {"p1", "p2"}
RouteE == <<"/", "e">>
RouteEX == <<"/", "e", "x">>
RouteJ == <<"/", "j">>
RouteTables == {<< >>, <<RouteE>>, <<RouteJ, RouteEX>>}
Paths == {<<"/", "e">>, <<"/", "e", "x", "y">>, <<"/", "j">>, <<"/">>}
NoService == [Id |-> "", Name |-> << >>, IpAddress |-> "", Port |-> 0, Routes |-> << >>]

(***************************************************************************)
(* Helpers on functions used as Go maps.                                   *)
(***************************************************************************)
MapSet(f, k, v) == [x \in DOMAIN f \cup {k} |-> IF x = k THEN v ELSE f[x]]
MapDel(f, k) == [x \in DOMAIN f \ {k} |-> f[x]]
MapGet(f, k, zero) == IF k \in DOMAIN f THEN f[k] ELSE zero

(***************************************************************************)
(* Service: keys, route matching, JSON.                                    *)
(***************************************************************************)
Key(s) == <<"morpheus", "service">> \o s.Name \o <<s.Id>>
getBaseKey(s) == <<"morpheus", "service">> \o s.Name

HasPrefix(str, prefix) ==
    /\ Len(prefix) <= Len(str)
    /\ SubSeq(str, 1, Len(prefix)) = prefix

\* The prefix test with its arguments exchanged.
MatchReversed(s, path) == \E i \in 1..Len(s.Routes) : HasPrefix(s.Routes[i], path)

Match(s, path) == \E i \in 1..Len(s.Routes) : HasPrefix(path, s.Routes[i])

\* json.Marshal(svc): the fields tagged omitempty are left out when they hold
\* their zero value; LivenessChannel and the routes' Handler are tagged "-".
ServiceZero(f) ==
    CASE f = "id" -> ""
      [] f = "name" -> << >>
      [] f = "ip_address" -> ""
      [] f = "port" -> 0
      [] f = "routes" -> << >>
ServiceField(s, f) ==
    CASE f = "id" -> s.Id
      [] f = "name" -> s.Name
      [] f = "ip_address" -> s.IpAddress
      [] f = "port" -> s.Port
      [] f = "routes" -> s.Routes
ServiceFields == {"id", "name", "ip_address", "port", "routes"}
MarshalService(s) ==
    [f \in {g \in ServiceFields : ServiceField(s, g) # ServiceZero(g)} |-> ServiceField(s, f)]
UnmarshalService(w) ==
    [Id |-> MapGet(w, "id", ""), Name |-> MapGet(w, "name", << >>),
     IpAddress |-> MapGet(w, "ip_address", ""), Port |-> MapGet(w, "port", 0),
     Routes |-> MapGet(w, "routes", << >>)]

(***************************************************************************)
(* Services: the local registry.                                           *)
(***************************************************************************)
Add(s, ref) ==
    LET inner == IF ref[1] \in DOMAIN s THEN s[ref[1]] ELSE << >>
    IN  MapSet(s, ref[1], MapSet(inner, ref[2], ref))

\* A lookup by id alone, under any name.
serviceExistsAnyName(name, id) == \E n \in DOMAIN Services : id \in DOMAIN Services[n]

serviceExists(name, id) == name \in DOMAIN Services /\ id \in DOMAIN Services[name]

Registered == {ref \in DOMAIN svcs : serviceExists(ref[1], ref[2])}

(***************************************************************************)
(* The store: Set with a TTL, SAdd and Expire, Get, Keys.                  *)
(***************************************************************************)
StoreSet(st, k, v, ttl) == MapSet(st, k, [val |-> v, ttl |-> ttl])

UpdatePresence(st, s) == StoreSet(st, Key(s) \o <<"presence">>, s.Id, DefaultTTL)

UpdateHealth(st, s) == StoreSet(st, Key(s) \o <<"health">>, MarshalService(s), DefaultTTL)

\* SAdd with no members is rejected by the store and creates no key; Expire of
\* a key that does not exist does nothing.
UpdateRoutes(st, s) ==
    LET key == Key(s) \o <<"routes">>
        routes == {s.Routes[i] : i \in 1..Len(s.Routes)}
        old == IF key \in DOMAIN st THEN st[key].val ELSE {}
    IN  IF routes = {} /\ key \notin DOMAIN st THEN st
        ELSE StoreSet(st, key, old \cup routes, DefaultTTL)

UpdateService(st, s) == UpdateRoutes(UpdateHealth(UpdatePresence(st, s), s), s)

getServiceName(key) == <<key[3]>>

\* KEYS morpheus:service:*:presence
PresenceKeys(st) ==
    {k \in DOMAIN st : /\ Len(k) >= 4
                       /\ k[1] = "morpheus" /\ k[2] = "service"
                       /\ k[Len(k)] = "presence"}

HealthKey(name, id) == <<"morpheus", "service">> \o name \o <<id, "health">>

\* FetchService(name, id): the error case is a missing health key.
FetchOk(st, name, id) == HealthKey(name, id) \in DOMAIN st
FetchService(st, name, id) == UnmarshalService(st[HealthKey(name, id)].val)

IdRank(id) == IF \E i \in 1..Len(IdOrder) : IdOrder[i] = id
              THEN CHOOSE i \in 1..Len(IdOrder) : IdOrder[i] = id
              ELSE 0

\* The presence keys whose service can be fetched, in the order of the
\* stable sort by Id (keys of equal Id stay in the order KEYS gave them).
RECURSIVE SortedKeys(_, _)
SortedKeys(st, keys) ==
    IF keys = {} THEN << >>
    ELSE LET rank(k) == IdRank(FetchService(st, getServiceName(k), st[k].val).Id)
             k0 == CHOOSE k \in keys : \A j \in keys : rank(k) <= rank(j)
         IN  <<k0>> \o SortedKeys(st, keys \ {k0})

\* Discovery that reads the local registry instead of the store.
RECURSIVE SeqOfSet(_)
SeqOfSet(S) ==
    IF S = {} THEN << >>
    ELSE LET x == CHOOSE y \in S : TRUE IN <<x>> \o SeqOfSet(S \ {x})
ListServicesLocal(st) ==
    LET refs == SeqOfSet(Registered)
    IN  [i \in 1..Len(refs) |-> UnmarshalService(MarshalService(svcs[refs[i]]))]

ListServices(st) ==
    LET ok == {k \in PresenceKeys(st) : FetchOk(st, getServiceName(k), st[k].val)}
        keys == SortedKeys(st, ok)
    IN  [i \in 1..Len(keys) |-> FetchService(st, getServiceName(keys[i]), st[keys[i]].val)]

SelectSeq2(seq, path) == SelectSeq(seq, LAMBDA s : Match(s, path))

Matching(st, path) == SelectSeq2(ListServices(st), path)

(***************************************************************************)
(* Initial state: the value returned by Init(), connected to an empty      *)
(* store.                                                                  *)
(***************************************************************************)
NoRet == [op |-> "none"]

Init ==
    /\ running = TRUE
    /\ Services = << >>
    /\ svcs = << >>
    /\ store = << >>
    /\ tasks = << >>
    /\ loops = << >>
    /\ reqs = << >>
    /\ published = {}
    /\ handled = {}
    /\ removed = << >>
    /\ ret = NoRet

(***************************************************************************)
(* RegisterService(name, port, routes, handler).  The dispatch goroutine   *)
(* is only started here; it subscribes in a step of its own (Subscribe).   *)
(***************************************************************************)
NewService(name, svcId, port, routes) ==
    [Id |-> svcId, Name |-> name, IpAddress |-> "ip", Port |-> port,
     Routes |-> routes, LivenessChannel |-> "nil"]

\* Scheduler.AddWithID: an id already in use is refused (the error is logged).
AddWithID(ts, id, ref) ==
    IF id \in DOMAIN ts THEN ts
    ELSE MapSet(ts, id, [svc |-> ref, timer |-> DefaultHBInterval, missed |-> 0])

RegisterService(name, port, routes, handler) ==
    /\ running
    /\ \E svcId \in Ids :
         IF serviceExists(name, svcId)
         THEN /\ ret' = [op |-> "RegisterService", name |-> name, id |-> svcId,
                         svc |-> << >>, err |-> "service already exists"]
              /\ UNCHANGED <<Services, svcs, store, tasks, loops>>
         ELSE LET ref == <<name, svcId>>
                  svc == NewService(name, svcId, port, routes)
              IN  /\ svcs' = MapSet(svcs, ref, svc)
                  /\ Services' = Add(Services, ref)
                  /\ store' = UpdateService(store, svc)
                  /\ loops' = IF handler # "nil"
                              THEN MapSet(loops, ref, [pc |-> "start", handler |-> handler,
                                                       inbox |-> << >>, busy |-> {},
                                                       errors |-> 0])
                              ELSE loops
                  /\ tasks' = AddWithID(tasks, svcId, ref)
                  /\ ret' = [op |-> "RegisterService", name |-> name, id |-> svcId,
                             svc |-> ref, err |-> ""]
    /\ UNCHANGED <<running, reqs, published, handled, removed>>

(***************************************************************************)
(* The recurring task of a service: UpdateService every DefaultHBInterval. *)
(* A due cycle either runs or is missed (the task's run is late by a whole *)
(* interval, or its writes do not reach the store: their results are       *)
(* discarded).                                                             *)
(***************************************************************************)
HeartbeatRun(id) ==
    /\ running
    /\ id \in DOMAIN tasks
    /\ tasks[id].timer = 0
    /\ store' = UpdateService(store, svcs[tasks[id].svc])
    /\ tasks' = [tasks EXCEPT ![id].timer = DefaultHBInterval, ![id].missed = 0]
    /\ UNCHANGED <<running, Services, svcs, loops, reqs, published, handled,
                   removed, ret>>

HeartbeatMiss(id) ==
    /\ running
    /\ id \in DOMAIN tasks
    /\ tasks[id].timer = 0
    /\ tasks' = [tasks EXCEPT ![id].timer = DefaultHBInterval,
                              ![id].missed = IF @ < MissedCap THEN @ + 1 ELSE @]
    /\ UNCHANGED <<running, Services, svcs, store, loops, reqs, published,
                   handled, removed, ret>>

(***************************************************************************)
(* One second passes: every key's TTL and every running timer go down by   *)
(* one, and the keys whose TTL has run out are gone.  A due task acts      *)
(* before the next second.                                                 *)
(***************************************************************************)
Expire(st) ==
    LET live == {k \in DOMAIN st : st[k].ttl > 1}
    IN  [k \in live |-> [st[k] EXCEPT !.ttl = @ - 1]]

TickTasks(ts) == [id \in DOMAIN ts |-> [ts[id] EXCEPT !.timer = IF @ > 0 THEN @ - 1 ELSE 0]]

TickReq(r) ==
    [r EXCEPT !.age = IF @ < MaxTimeout THEN @ + 1 ELSE @,
              !.sleep = IF @ > 0 THEN @ - 1 ELSE 0]

Tick ==
    /\ running => \A id \in DOMAIN tasks : tasks[id].timer > 0
    /\ store' = Expire(store)
    /\ tasks' = IF running THEN TickTasks(tasks) ELSE tasks
    /\ reqs' = [m \in DOMAIN reqs |-> TickReq(reqs[m])]
    /\ UNCHANGED <<running, Services, svcs, loops, published, handled, removed, ret>>

(***************************************************************************)
(* ResolveService(path): idx is rand.Int() % len(out).                     *)
(***************************************************************************)
ResolveResult(out, idx) ==
    IF Len(out) > 0
    THEN [svc |-> out[idx + 1], err |-> ""]
    ELSE [svc |-> NoService, err |-> "service not found"]

ResolveService(path) ==
    /\ running
    /\ LET out == Matching(store, path)
       IN  \E idx \in 0..(IF Len(out) > 0 THEN Len(out) - 1 ELSE 0) :
             LET res == ResolveResult(out, idx)
             IN  ret' = [op |-> "ResolveService", path |-> path,
                         svc |-> res.svc, err |-> res.err]
    /\ UNCHANGED <<running, Services, svcs, store, tasks, loops, reqs, published,
                   handled, removed>>

(***************************************************************************)
(* Services.Remove(svc): close(svc.LivenessChannel), then delete the       *)
(* entry.  Closing a nil or an already closed channel panics, and the      *)
(* statement after it is not reached; the process survives the panic only  *)
(* when the caller recovers from it.                                       *)
(***************************************************************************)
RemoveEntry(s, ref) ==
    IF ref[1] \in DOMAIN s THEN MapSet(s, ref[1], MapDel(s[ref[1]], ref[2])) ELSE s

Remove(ref) ==
    /\ running
    /\ ref \in DOMAIN svcs
    /\ ref \notin DOMAIN removed
    /\ removed' = MapSet(removed, ref, Cardinality(DOMAIN reqs))
    /\ IF svcs[ref].LivenessChannel = "open"
       THEN /\ svcs' = [svcs EXCEPT ![ref].LivenessChannel = "closed"]
            /\ Services' = RemoveEntry(Services, ref)
            /\ ret' = [op |-> "Remove", svc |-> ref, panic |-> FALSE]
            /\ UNCHANGED running
       ELSE /\ ret' = [op |-> "Remove", svc |-> ref, panic |-> TRUE]
            /\ \E recovered \in BOOLEAN : running' = recovered
            /\ UNCHANGED <<Services, svcs>>
    /\ UNCHANGED <<store, tasks, loops, reqs, published, handled>>

(***************************************************************************)
(* DeleteService(svc): delete(m.Services, svc.Id), on the outer map, whose *)
(* keys are service names.                                                 *)
(***************************************************************************)
DeleteService(ref) ==
    /\ running
    /\ ref \in DOMAIN svcs
    /\ Services' = MapDel(Services, <<svcs[ref].Id>>)
    /\ ret' = [op |-> "DeleteService", svc |-> ref]
    /\ UNCHANGED <<running, svcs, store, tasks, loops, reqs, published, handled, removed>>

(***************************************************************************)
(* Message: the wire format and the topics.                                *)
(***************************************************************************)
\* randomId() for a Message: an id no other message has.  Requests are
\* numbered in the order they are sent; a reply is named after the request
\* it answers and the instance that answers.
RECURSIVE JoinColon(_)
JoinColon(segs) ==
    IF Len(segs) = 0 THEN ""
    ELSE IF Len(segs) = 1 THEN segs[1]
    ELSE segs[1] \o ":" \o JoinColon(Tail(segs))
RequestId(n) == "m" \o ToString(n)
ReplyId(msg, ref) == msg.MsgId \o "." \o JoinColon(ref[1] \o <<ref[2]>>)

NilPayload == "nil"
NoMessage == [MsgId |-> "", ResponseChannel |-> << >>, Channel |-> << >>, Route |-> << >>,
              From |-> << >>, To |-> << >>, Payload |-> NilPayload]

\* json.Marshal(message): every field is tagged omitempty.
MessageFields == {"msg_id", "response_channel", "channel", "route", "from", "to", "payload"}
MessageField(m, f) ==
    CASE f = "msg_id" -> m.MsgId
      [] f = "response_channel" -> m.ResponseChannel
      [] f = "channel" -> m.Channel
      [] f = "route" -> m.Route
      [] f = "from" -> m.From
      [] f = "to" -> m.To
      [] f = "payload" -> m.Payload
MessageZero(f) ==
    CASE f = "msg_id" -> ""
      [] f = "payload" -> NilPayload
      [] OTHER -> << >>
MarshalMessage(m) ==
    [ok |-> TRUE,
     obj |-> [f \in {g \in MessageFields : MessageField(m, g) # MessageZero(g)}
                |-> MessageField(m, f)]]
UnmarshalMessage(w) ==
    [MsgId |-> MapGet(w.obj, "msg_id", ""),
     ResponseChannel |-> MapGet(w.obj, "response_channel", << >>),
     Channel |-> MapGet(w.obj, "channel", << >>),
     Route |-> MapGet(w.obj, "route", << >>),
     From |-> MapGet(w.obj, "from", << >>),
     To |-> MapGet(w.obj, "to", << >>),
     Payload |-> MapGet(w.obj, "payload", NilPayload)]

\* A response topic that leaves out the MsgId.
ResponseChannelShared(channel, msgId) == channel \o <<"response">>

ResponseChannelOf(channel, msgId) == channel \o <<"response", msgId>>

\* The topics the dispatch goroutine of a service subscribes to.
channels(s) == {Key(s), getBaseKey(s)}

\* Publish: the message reaches the subscriptions that are open on the topic
\* at that moment, and nothing else.
PublishLoops(lp, topic, wire) ==
    [ref \in DOMAIN lp |->
        IF lp[ref].pc = "select" /\ topic \in channels(svcs[ref])
        THEN [lp[ref] EXCEPT !.inbox = Append(@, wire)]
        ELSE lp[ref]]

PublishReqs(rq, topic, wire) ==
    [m \in DOMAIN rq |->
        IF rq[m].sub = "open" /\ rq[m].msg.ResponseChannel = topic
        THEN [rq[m] EXCEPT !.inbox = Append(@, wire)]
        ELSE rq[m]]

\* A request whose response topic has not been subscribed to when Message
\* publishes.
NewReqUnsubscribed(message, retch) ==
    [msg |-> message, kind |-> retch.kind, ready |-> retch.ready, limit |-> retch.limit,
     sub |-> "none", inbox |-> << >>, waiter |-> "recv", response |-> NoMessage,
     timer |-> "none", timeout |-> 0, sleep |-> 0, age |-> 0, got |-> << >>]

\* The request's subscription to its response topic, its waiter goroutine
\* (blocked in ReceiveMessage) and the caller's end of retch.
NewReq(message, retch) ==
    [msg |-> message, kind |-> retch.kind, ready |-> retch.ready, limit |-> retch.limit,
     sub |-> "open", inbox |-> << >>, waiter |-> "recv", response |-> NoMessage,
     timer |-> "none", timeout |-> 0, sleep |-> 0, age |-> 0, got |-> << >>]

\* Message(channel, from, to, route, payload, responseTo, retch) run on the
\* dispatch goroutines lp and the requests rq; msgId is what randomId()
\* returns and isReply is responseTo != nil.  The subscription to the
\* response topic is made before the publish.
Message(lp, rq, msgId, channel, from, to, route, payload, isReply, retch) ==
    LET message == [MsgId |-> msgId,
                    ResponseChannel |-> IF isReply THEN << >>
                                        ELSE ResponseChannelOf(channel, msgId),
                    Channel |-> channel, Route |-> route, From |-> from, To |-> to,
                    Payload |-> payload]
        jMsg == MarshalMessage(message)
        rq1 == IF isReply THEN rq ELSE MapSet(rq, msgId, NewReq(message, retch))
    IN  [msgId |-> msgId,
         reqs |-> PublishReqs(rq1, channel, jMsg),
         loops |-> PublishLoops(lp, channel, jMsg),
         published |-> published \cup {[topic |-> channel, wire |-> jMsg]}]

NoRetch == [kind |-> "none", ready |-> FALSE, limit |-> 0]

\* A reply that keeps the request's From and To.
RespondUnswapped(lp, rq, msgId, msg, payload) ==
    Message(lp, rq, msgId, msg.ResponseChannel, msg.From, msg.To, msg.Route, payload, TRUE,
            NoRetch)

Respond(lp, rq, msgId, msg, payload) ==
    Message(lp, rq, msgId, msg.ResponseChannel, msg.To, msg.From, msg.Route, payload, TRUE,
            NoRetch)

\* History kept with a request: its target's dispatch goroutine was
\* subscribed, with a handler that responds, when the request was sent.
Ready(ref) == ref \in DOMAIN loops /\ loops[ref].pc = "select" /\ loops[ref].handler = "echo"

Requests == Cardinality(DOMAIN reqs)

(***************************************************************************)
(* RPC and RPCWithTimeout.  limit is the number of values the caller is    *)
(* going to receive from the returned channel.                             *)
(***************************************************************************)
RPC(from, ref, route, payload, limit) ==
    /\ running
    /\ ref \in DOMAIN svcs
    /\ LET r == Message(loops, reqs, RequestId(Requests + 1), <<"rpc">>, from, Key(svcs[ref]), route, payload, FALSE,
                        [kind |-> "RPC", ready |-> Ready(ref), limit |-> limit])
       IN  /\ reqs' = r.reqs
           /\ loops' = r.loops
           /\ published' = r.published
    /\ UNCHANGED <<running, Services, svcs, store, tasks, handled, removed, ret>>

RPCWithTimeout(from, ref, route, payload, timeout, limit) ==
    /\ running
    /\ ref \in DOMAIN svcs
    /\ LET r == Message(loops, reqs, RequestId(Requests + 1), Key(svcs[ref]), from, Key(svcs[ref]), route, payload,
                        FALSE,
                        [kind |-> "RPCWithTimeout", ready |-> Ready(ref), limit |-> limit])
       IN  /\ reqs' = [r.reqs EXCEPT ![r.msgId].timer = "sleep",
                                     ![r.msgId].timeout = timeout,
                                     ![r.msgId].sleep = timeout]
           /\ loops' = r.loops
           /\ published' = r.published
    /\ UNCHANGED <<running, Services, svcs, store, tasks, handled, removed, ret>>

\* Message called directly with a return channel, on any channel: the way
\* to address every instance of a name through its shared topic.
MessageCall(channel, from, to, route, payload, limit) ==
    /\ running
    /\ LET r == Message(loops, reqs, RequestId(Requests + 1), channel, from, to, route, payload,
                        FALSE, [kind |-> "Message", ready |-> FALSE, limit |-> limit])
       IN  /\ reqs' = r.reqs
           /\ loops' = r.loops
           /\ published' = r.published
    /\ UNCHANGED <<running, Services, svcs, store, tasks, handled, removed, ret>>

(***************************************************************************)
(* The dispatch goroutine of a service registered with a handler.          *)
(***************************************************************************)
Subscribe(ref) ==
    /\ running
    /\ ref \in DOMAIN loops
    /\ loops[ref].pc = "start"
    /\ loops' = [loops EXCEPT ![ref].pc = "select"]
    /\ UNCHANGED <<running, Services, svcs, store, tasks, reqs, published, handled,
                   removed, ret>>

\* The handler: "echo" calls Respond with the payload it was sent, "silent"
\* returns without responding.
Handler(kind, ref, lp, rq, message) ==
    IF kind = "echo"
    THEN Respond(lp, rq, ReplyId(message, ref), message, message.Payload)
    ELSE [msgId |-> "", reqs |-> rq, loops |-> lp, published |-> published]

\* A dispatch goroutine that returns when a publication cannot be
\* unmarshalled.
UnmarshalFailedReturn(l) == [l EXCEPT !.pc = "done", !.errors = @ + 1]

\* json.Unmarshal failed: the error is logged and the loop continues.
UnmarshalFailed(l) == [l EXCEPT !.errors = @ + 1]

\* A dispatch goroutine that starts each handler in a goroutine of its own.
AtSelectDetached(l) == l.pc = "select"

\* The goroutine is at its select: subscribed, and not inside a call of the
\* handler, which it makes synchronously.
AtSelect(l) == l.pc = "select" /\ l.busy = {}

\* One round of the select: the liveness channel is ready only once closed
\* (a nil channel never is); otherwise the next publication is taken and, if
\* it can be unmarshalled, the handler is called with it.  The step ends
\* inside the handler, after its call of Respond if it makes one.
Dispatch(ref) ==
    /\ running
    /\ ref \in DOMAIN loops
    /\ AtSelect(loops[ref])
    /\ IF svcs[ref].LivenessChannel = "closed"
       THEN /\ loops' = [loops EXCEPT ![ref].pc = "done"]
            /\ UNCHANGED <<reqs, published, handled>>
       ELSE /\ loops[ref].inbox # << >>
            /\ LET wire == Head(loops[ref].inbox)
                   lp == [loops EXCEPT ![ref].inbox = Tail(@)]
               IN  IF ~wire.ok
                   THEN /\ loops' = [lp EXCEPT ![ref] = UnmarshalFailed(@)]
                        /\ UNCHANGED <<reqs, published, handled>>
                   ELSE LET message == UnmarshalMessage(wire)
                            r == Handler(loops[ref].handler, ref, lp, reqs, message)
                        IN  /\ handled' = handled \cup {[svc |-> ref, msg |-> message]}
                            /\ loops' = [r.loops EXCEPT ![ref].busy = @ \cup {message}]
                            /\ reqs' = r.reqs
                            /\ published' = r.published
    /\ UNCHANGED <<running, Services, svcs, store, tasks, removed, ret>>

\* A call of the handler returns.
HandlerReturn(ref) ==
    /\ running
    /\ ref \in DOMAIN loops
    /\ \E message \in loops[ref].busy :
          loops' = [loops EXCEPT ![ref].busy = @ \ {message}]
    /\ UNCHANGED <<running, Services, svcs, store, tasks, reqs, published, handled,
                   removed, ret>>

\* A publication on a topic, by any client of the store, of a payload that
\* is not the JSON of a Message.
Undecodable == [ok |-> FALSE, obj |-> << >>]
PublishRaw(topic) ==
    /\ [topic |-> topic, wire |-> Undecodable] \notin published
    /\ loops' = PublishLoops(loops, topic, Undecodable)
    /\ reqs' = PublishReqs(reqs, topic, Undecodable)
    /\ published' = published \cup {[topic |-> topic, wire |-> Undecodable]}
    /\ UNCHANGED <<running, Services, svcs, store, tasks, handled, removed, ret>>

(***************************************************************************)
(* The waiter goroutine of a request, the timer goroutine of               *)
(* RPCWithTimeout, and the caller receiving from the unbuffered retch.     *)
(***************************************************************************)
WaiterReceive(m) ==
    /\ running
    /\ m \in DOMAIN reqs
    /\ reqs[m].waiter = "recv"
    /\ reqs[m].inbox # << >>
    /\ LET wire == Head(reqs[m].inbox)
       IN  reqs' = [reqs EXCEPT ![m].inbox = Tail(@),
                                ![m].waiter = IF wire.ok THEN "send" ELSE "failed",
                                ![m].response = IF wire.ok THEN UnmarshalMessage(wire)
                                                ELSE NoMessage]
    /\ UNCHANGED <<running, Services, svcs, store, tasks, loops, published, handled,
                   removed, ret>>

WaiterClose(m) ==
    /\ running
    /\ m \in DOMAIN reqs
    /\ reqs[m].waiter = "close"
    /\ reqs' = [reqs EXCEPT ![m].waiter = "done", ![m].sub = "closed", ![m].inbox = << >>]
    /\ UNCHANGED <<running, Services, svcs, store, tasks, loops, published, handled,
                   removed, ret>>

\* A timer that does not wait for its sleep to end.
TimerDueAtOnce(r) == r.timer = "sleep"

TimerDue(r) == r.timer = "sleep" /\ r.sleep = 0

Received(nil, msg) == [nil |-> nil, msg |-> msg]

\* A waiter that goes back to ReceiveMessage after forwarding.
ForwardedAgain(r) == [r EXCEPT !.waiter = "recv"]

\* The waiter after retch <- &response: it goes on to sub.Close().
Forwarded(r) == [r EXCEPT !.waiter = "close"]

\* retch <- &response meets the caller's receive.
CallerRecvReply(m) ==
    /\ running
    /\ m \in DOMAIN reqs
    /\ Len(reqs[m].got) < reqs[m].limit
    /\ reqs[m].waiter = "send"
    /\ reqs' = [reqs EXCEPT ![m] = Forwarded([@ EXCEPT !.got = Append(@, Received(FALSE,
                                                                          reqs[m].response))])]
    /\ UNCHANGED <<running, Services, svcs, store, tasks, loops, published, handled,
                   removed, ret>>

\* A timer goroutine that sleeps and sends again after its send.
TimerSentAgain(r) == [r EXCEPT !.sleep = r.timeout]

\* The timer goroutine after retch <- nil: it returns.
TimerSent(r) == [r EXCEPT !.timer = "done"]

\* retch <- nil, after time.Sleep(timeout), meets the caller's receive.
CallerRecvNil(m) ==
    /\ running
    /\ m \in DOMAIN reqs
    /\ Len(reqs[m].got) < reqs[m].limit
    /\ TimerDue(reqs[m])
    /\ reqs' = [reqs EXCEPT ![m] = TimerSent([@ EXCEPT !.got = Append(@, Received(TRUE,
                                                                         NoMessage))])]
    /\ UNCHANGED <<running, Services, svcs, store, tasks, loops, published, handled,
                   removed, ret>>

(***************************************************************************)
(* The whole system, for one service and one request.                      *)
(***************************************************************************)
Refs == Names \X Ids
ReqIds == {RequestId(n) : n \in 1..MaxReqs + 1}

Next ==
    \/ /\ Cardinality(DOMAIN svcs) < SoloServices
       /\ \E handler \in {"echo", "silent"} :
            RegisterService(<<"a">>, 8080, <<RouteE>>, handler)
    \/ \E id \in Ids : HeartbeatRun(id)
    \/ \E id \in Ids : HeartbeatMiss(id)
    \/ Tick
    \/ \E path \in {RouteE, RouteJ} : ResolveService(path)
    \/ \E ref \in Refs : Remove(ref)
    \/ \E ref \in Refs : DeleteService(ref)
    \/ /\ Requests < SoloReqs
       /\ \E ref \in Refs, payload \in Payloads, limit \in {1, KeepReceiving} :
            RPC(<<"client">>, ref, RouteE, payload, limit)
    \/ /\ Requests < SoloReqs
       /\ \E ref \in Refs, payload \in Payloads, timeout \in 1..MaxTimeout, limit \in {1, KeepReceiving} :
            RPCWithTimeout(<<"client">>, ref, RouteE, payload, timeout, limit)
    \/ \E ref \in Refs : Subscribe(ref)
    \/ \E ref \in Refs : Dispatch(ref)
    \/ \E ref \in Refs : HandlerReturn(ref)
    \/ \E m \in ReqIds : WaiterReceive(m)
    \/ \E m \in ReqIds : WaiterClose(m)
    \/ \E m \in ReqIds : CallerRecvReply(m)
    \/ \E m \in ReqIds : CallerRecvNil(m)

Spec == Init /\ [][Next]_vars

(***************************************************************************)
(* Registration, heartbeat, expiry and discovery, with every input of      *)
(* RegisterService and ResolveService, for services without a handler.     *)
(***************************************************************************)
DiscoveryNext ==
    \/ /\ Cardinality(DOMAIN svcs) < MaxServices
       /\ \E name \in Names, port \in Ports, routes \in RouteTables :
            RegisterService(name, port, routes, "nil")
    \/ \E id \in Ids : HeartbeatRun(id)
    \/ \E id \in Ids : HeartbeatMiss(id)
    \/ Tick
    \/ \E path \in Paths : ResolveService(path)
    \/ \E ref \in Refs : Remove(ref)

DiscoverySpec == Init /\ [][DiscoveryNext]_vars

(***************************************************************************)
(* Up to n requests to one service whose heartbeats all run.               *)
(***************************************************************************)
Calls(n) ==
    \/ /\ Cardinality(DOMAIN svcs) < SoloServices
       /\ \E handler \in {"echo", "silent"} :
            RegisterService(<<"a">>, 8080, <<RouteE>>, handler)
    \/ \E id \in Ids : HeartbeatRun(id)
    \/ Tick
    \/ /\ Requests < n
       /\ \E ref \in Refs, payload \in Payloads, limit \in {1, KeepReceiving} :
            RPC(<<"client">>, ref, RouteE, payload, limit)
    \/ /\ Requests < n
       /\ \E ref \in Refs, payload \in Payloads, timeout \in 1..MaxTimeout, limit \in {1, KeepReceiving} :
            RPCWithTimeout(<<"client">>, ref, RouteE, payload, timeout, limit)
    \/ \E ref \in Refs : Subscribe(ref)
    \/ \E ref \in Refs : Dispatch(ref)
    \/ \E ref \in Refs : HandlerReturn(ref)
    \/ \E m \in ReqIds : WaiterReceive(m)
    \/ \E m \in ReqIds : WaiterClose(m)
    \/ \E m \in ReqIds : CallerRecvReply(m)
    \/ \E m \in ReqIds : CallerRecvNil(m)

RPCNext == Calls(MaxReqs)

RPCSpec == Init /\ [][RPCNext]_vars

\* Time passes, a due heartbeat cycle runs or is missed, every goroutine that
\* can take a step eventually does, every handler returns, and a caller that is still receiving
\* takes a value that is offered.  The calls of the API are not forced.
Fairness ==
    /\ WF_vars(Tick)
    /\ \A id \in Ids : WF_vars(HeartbeatRun(id) \/ HeartbeatMiss(id))
    /\ \A ref \in Refs :
         WF_vars(Subscribe(ref)) /\ WF_vars(Dispatch(ref)) /\ WF_vars(HandlerReturn(ref))
    /\ \A m \in ReqIds :
         /\ WF_vars(WaiterReceive(m))
         /\ WF_vars(WaiterClose(m))
         /\ WF_vars(CallerRecvReply(m))
         /\ WF_vars(CallerRecvNil(m))

CallNext == Calls(SoloReqs)

FairCallSpec == Init /\ [][CallNext]_vars /\ Fairness

(***************************************************************************)
(* Several instances of one name, each with a handler, addressed through   *)
(* the shared topic of the name by a direct call of Message, with          *)
(* undecodable publications on their topics: n is the number of instances. *)
(* No time passes.                                                         *)
(***************************************************************************)
NameTopic == <<"morpheus", "service", "a">>
ServiceTopics == {NameTopic} \cup {NameTopic \o <<id>> : id \in Ids}

Shared(n) ==
    \/ /\ Cardinality(DOMAIN svcs) < n
       /\ \E handler \in {"echo", "silent"} :
            RegisterService(<<"a">>, 8080, <<RouteE>>, handler)
    \/ /\ Requests < SoloReqs
       /\ \E topic \in ServiceTopics, payload \in Payloads, limit \in {1, KeepReceiving} :
            MessageCall(topic, <<"client">>, topic, RouteE, payload, limit)
    \/ \E topic \in ServiceTopics : PublishRaw(topic)
    \/ \E ref \in Refs : Subscribe(ref)
    \/ \E ref \in Refs : Dispatch(ref)
    \/ \E ref \in Refs : HandlerReturn(ref)
    \/ \E m \in ReqIds : WaiterReceive(m)
    \/ \E m \in ReqIds : WaiterClose(m)
    \/ \E m \in ReqIds : CallerRecvReply(m)

ShareNext == Shared(MaxServices)

ShareSpec == Init /\ [][ShareNext]_vars

\* One instance only.  Every goroutine that can take a step eventually
\* does, every handler returns, and a caller that is still receiving takes
\* a value offered.
ShareFairness ==
    /\ \A ref \in Refs :
         WF_vars(Subscribe(ref)) /\ WF_vars(Dispatch(ref)) /\ WF_vars(HandlerReturn(ref))
    /\ \A m \in ReqIds :
         /\ WF_vars(WaiterReceive(m))
         /\ WF_vars(WaiterClose(m))
         /\ WF_vars(CallerRecvReply(m))

SoloShareNext == Shared(SoloServices)

FairShareSpec == Init /\ [][SoloShareNext]_vars /\ ShareFairness

(***************************************************************************)
(* The same instances with several requests and well-formed publications   *)
(* only.                                                                   *)
(***************************************************************************)
DispatchNext ==
    \/ /\ Cardinality(DOMAIN svcs) < MaxServices
       /\ \E handler \in {"echo", "silent"} :
            RegisterService(<<"a">>, 8080, <<RouteE>>, handler)
    \/ /\ Requests < MaxReqs
       /\ \E topic \in ServiceTopics, payload \in Payloads, limit \in {1, KeepReceiving} :
            MessageCall(topic, <<"client">>, topic, RouteE, payload, limit)
    \/ \E ref \in Refs : Subscribe(ref)
    \/ \E ref \in Refs : Dispatch(ref)
    \/ \E ref \in Refs : HandlerReturn(ref)
    \/ \E m \in ReqIds : WaiterReceive(m)
    \/ \E m \in ReqIds : WaiterClose(m)
    \/ \E m \in ReqIds : CallerRecvReply(m)

DispatchSpec == Init /\ [][DispatchNext]_vars

(***************************************************************************)
(* Properties.                                                             *)
(***************************************************************************)
PresenceKeyOf(ref) == <<"morpheus", "service">> \o ref[1] \o <<ref[2], "presence">>
Live(ref) == PresenceKeyOf(ref) \in DOMAIN store
IsInstance(s, ref) == s.Name = ref[1] /\ s.Id = ref[2]
IsPrefixOf(r, path) == Len(r) <= Len(path) /\ \A j \in 1..Len(r) : r[j] = path[j]
HasRouteFor(s, path) == \E i \in 1..Len(s.Routes) : IsPrefixOf(s.Routes[i], path)
\* What ResolveService(path) can return when called in the current state.
Resolutions(path) ==
    LET out == Matching(store, path)
    IN  {ResolveResult(out, idx) : idx \in 0..(IF Len(out) > 0 THEN Len(out) - 1 ELSE 0)}

\* C1: an instance whose presence key has expired (it was registered, and a
\* full TTL has passed since its last refresh) is in the result of no
\* ListServices call and is the result of no ResolveService call.
C1_ExpiredNotDiscovered ==
    \A ref \in DOMAIN svcs :
        ~Live(ref) =>
            /\ \A i \in 1..Len(ListServices(store)) : ~IsInstance(ListServices(store)[i], ref)
            /\ \A path \in Paths : \A res \in Resolutions(path) : ~IsInstance(res.svc, ref)

\* The only instance ever registered, "a", has expired, and the last call of
\* the API, a ResolveService for a path one of its routes matches, found none.
C1_Witness ==
    /\ DOMAIN svcs # {}
    /\ \A ref \in DOMAIN svcs :
         /\ ref[1] = <<"a">>
         /\ ~Live(ref)
         /\ HasRouteFor(svcs[ref], <<"/", "e", "x", "y">>)
    /\ Cardinality(DOMAIN svcs) = 1
    /\ ret.op = "ResolveService"
    /\ ret.path = <<"/", "e", "x", "y">>
    /\ ret.err = "service not found"

\* C8: a Service returned by ResolveService(path) has a route that is a
\* prefix of path.
C8_ResolvedMatches ==
    /\ (ret.op = "ResolveService" /\ ret.err = "") => HasRouteFor(ret.svc, ret.path)
    /\ \A path \in Paths : \A res \in Resolutions(path) :
          res.err = "" => HasRouteFor(res.svc, path)

\* ResolveService returned a service while another discoverable service has
\* no route for the path.
C8_Witness ==
    /\ ret.op = "ResolveService"
    /\ ret.err = ""
    /\ HasRouteFor(ret.svc, ret.path)
    /\ \E i \in 1..Len(ListServices(store)) : ~HasRouteFor(ListServices(store)[i], ret.path)

\* C9: ResolveService(path) fails with "service not found" exactly when no
\* live instance (one whose presence key exists) has a route that is a prefix
\* of path, and otherwise returns a Service and no error.
C9_NotFoundIffNoLiveMatch ==
    \A path \in Paths : \A res \in Resolutions(path) :
        /\ res.err \in {"", "service not found"}
        /\ res.err = "service not found"
             <=> ~\E ref \in DOMAIN svcs : Live(ref) /\ HasRouteFor(svcs[ref], path)
        /\ res.err = "" => res.svc # NoService

TargetHandler(m, kind) ==
    \E ref \in DOMAIN loops : Key(svcs[ref]) = reqs[m].msg.To /\ loops[ref].handler = kind

\* C2: an RPC sent to a service whose dispatch goroutine is subscribed and
\* whose handler responds with the payload P it is sent eventually delivers,
\* on the returned channel, a message with Payload P and From the service's
\* key.
RPCToReady(m) ==
    IF m \in DOMAIN reqs THEN reqs[m].kind = "RPC" /\ reqs[m].ready ELSE FALSE
ReplyDelivered(m) ==
    IF running /\ m \in DOMAIN reqs
    THEN \E i \in 1..Len(reqs[m].got) :
            /\ ~reqs[m].got[i].nil
            /\ reqs[m].got[i].msg.Payload = reqs[m].msg.Payload
            /\ reqs[m].got[i].msg.From = reqs[m].msg.To
    ELSE ~running
C2_RPCRoundTrip == \A m \in ReqIds : RPCToReady(m) ~> ReplyDelivered(m)

\* C3: for every request of a caller that receives only the first value from
\* the returned channel, the subscription to the response topic is
\* eventually closed and the waiter and the timer goroutines have ended.
FirstValueOnly(m) == IF m \in DOMAIN reqs THEN reqs[m].limit = 1 ELSE FALSE
Released(m) ==
    IF running /\ m \in DOMAIN reqs
    THEN /\ reqs[m].sub = "closed"
         /\ reqs[m].waiter = "done"
         /\ reqs[m].timer \in {"none", "done"}
    ELSE ~running
C3_NoLeak == \A m \in ReqIds : FirstValueOnly(m) ~> Released(m)

\* C4: for RPCWithTimeout to a service whose handler never responds, every
\* value the caller receives is nil, none is received before the timeout
\* has elapsed since the call, and the caller does receive nil.
TimeoutToSilent(m) ==
    IF m \in DOMAIN reqs
    THEN reqs[m].kind = "RPCWithTimeout" /\ TargetHandler(m, "silent")
    ELSE FALSE
OnlyNilAfterTimeout ==
    \A m \in DOMAIN reqs :
        TimeoutToSilent(m) =>
            /\ \A i \in 1..Len(reqs[m].got) : reqs[m].got[i].nil
            /\ reqs[m].got # << >> => reqs[m].age >= reqs[m].timeout
NilDelivered(m) ==
    IF running /\ m \in DOMAIN reqs
    THEN reqs[m].got # << >> /\ reqs[m].got[1].nil
    ELSE ~running
C4_TimeoutYieldsNil ==
    /\ []OnlyNilAfterTimeout
    /\ \A m \in ReqIds : TimeoutToSilent(m) ~> NilDelivered(m)

\* The handler that never responds was handed the request, and the caller
\* has received nil.
C4_Witness ==
    \E m \in DOMAIN reqs :
        /\ reqs[m].kind = "RPCWithTimeout"
        /\ reqs[m].timeout = MaxTimeout
        /\ TargetHandler(m, "silent")
        /\ \E h \in handled : h.msg = reqs[m].msg
        /\ reqs[m].got = <<Received(TRUE, NoMessage)>>

\* C5: every reply a caller receives on the channel returned for its request
\* was produced by Respond for that very request: it was published on the
\* request's response topic by an instance whose handler was handed the
\* request.
C5_RepliesToOwnRequest ==
    \A m \in DOMAIN reqs : \A i \in 1..Len(reqs[m].got) :
        LET v == reqs[m].got[i]
        IN  ~v.nil =>
              /\ v.msg.Channel = reqs[m].msg.Channel \o <<"response", m>>
              /\ \E h \in handled :
                    /\ h.msg = reqs[m].msg
                    /\ v.msg.MsgId = ReplyId(h.msg, h.svc)
                    /\ v.msg.Payload = h.msg.Payload
              /\ \A other \in DOMAIN reqs \ {m} : v.msg.Channel # reqs[other].msg.ResponseChannel

\* Two requests with different payloads were outstanding together: the
\* caller of one has its reply while the reply to the other is still on
\* its way.
C5_Witness ==
    \E m1, m2 \in DOMAIN reqs :
        /\ m1 # m2
        /\ reqs[m1].msg.Payload # reqs[m2].msg.Payload
        /\ \E i \in 1..Len(reqs[m1].got) : ~reqs[m1].got[i].nil
        /\ reqs[m2].waiter = "send"
        /\ reqs[m2].got = << >>

\* C6: once Services.Remove has been called for a service, its heartbeat
\* task writes no further refresh of its presence, health or routes key (so
\* the keys it holds at the removal are its last, and it leaves discovery
\* within one TTL), and its handler is invoked for no message published
\* after the removal.
KeyRefreshed(key) ==
    /\ key \in DOMAIN store'
    /\ key \notin DOMAIN store \/ store'[key].ttl > store[key].ttl
SentAfter(msg, n) == \E k \in (n + 1)..(MaxReqs + 1) : msg.MsgId = RequestId(k)
C6_RemoveStopsService ==
    [][\A ref \in DOMAIN removed :
          /\ \A kind \in {"presence", "health", "routes"} :
                ~KeyRefreshed(<<"morpheus", "service">> \o ref[1] \o <<ref[2], kind>>)
          /\ \A h \in handled' \ handled : h.svc = ref => ~SentAfter(h.msg, removed[ref])]_vars

\* C7: Services.Remove of a service built by RegisterService returns
\* normally, with the service's liveness channel closed and its registry
\* entry deleted, and leaves every other registry entry as it was.
HasEntry(reg, ref) == ref[1] \in DOMAIN reg /\ ref[2] \in DOMAIN reg[ref[1]]
C7_RemoveCompletes ==
    [][\A ref \in DOMAIN svcs :
          (ref \notin DOMAIN removed /\ ref \in DOMAIN removed') =>
              /\ running'
              /\ ret' = [op |-> "Remove", svc |-> ref, panic |-> FALSE]
              /\ svcs'[ref].LivenessChannel = "closed"
              /\ ~HasEntry(Services', ref)
              /\ \A other \in Refs \ {ref} :
                    HasEntry(Services', other) <=> HasEntry(Services, other)]_vars

\* C10: Respond(original, payload) publishes exactly one message, on the
\* topic original.ResponseChannel, with From = original.To, To =
\* original.From, the payload given and no ResponseChannel, and it adds no
\* subscription and no waiter.
C10_RespondPublishesReply ==
    [][\A h \in handled' \ handled :
          (h.svc \in DOMAIN loops /\ loops[h.svc].handler = "echo") =>
              /\ \E p \in published' :
                    /\ published' \ published = {p}
                    /\ p.topic = h.msg.ResponseChannel
                    /\ p.wire.ok
                    /\ "response_channel" \notin DOMAIN p.wire.obj
                    /\ UnmarshalMessage(p.wire).From = h.msg.To
                    /\ UnmarshalMessage(p.wire).To = h.msg.From
                    /\ UnmarshalMessage(p.wire).Payload = h.msg.Payload
                    /\ UnmarshalMessage(p.wire).ResponseChannel = << >>
              /\ DOMAIN reqs' = DOMAIN reqs
              /\ \A m \in DOMAIN reqs :
                    reqs'[m].sub = reqs[m].sub /\ reqs'[m].waiter = reqs[m].waiter]_vars

\* An echo handler was handed a request sent by a caller and its reply is in
\* the subscription of the request's waiter.
C10_Witness ==
    \E h \in handled :
        /\ h.svc \in DOMAIN loops
        /\ loops[h.svc].handler = "echo"
        /\ h.msg.From = <<"client">>
        /\ \E p \in published :
              /\ p.topic = h.msg.ResponseChannel
              /\ UnmarshalMessage(p.wire).From = Key(svcs[h.svc])
              /\ h.msg.MsgId \in DOMAIN reqs
              /\ reqs[h.msg.MsgId].inbox = <<p.wire>>

\* The heartbeat task of a service, if it has one, has missed at most n
\* cycles in a row, in a process that is alive.
HeartbeatOf(ref) == {id \in DOMAIN tasks : tasks[id].svc = ref}
MissesAtMost(ref, n) ==
    running /\ \E id \in HeartbeatOf(ref) : tasks[id].missed <= n
KeyOf(ref, kind) == <<"morpheus", "service">> \o ref[1] \o <<ref[2], kind>>
KeysHeld(ref) ==
    /\ KeyOf(ref, "presence") \in DOMAIN store
    /\ KeyOf(ref, "health") \in DOMAIN store
    /\ svcs[ref].Routes # << >> => KeyOf(ref, "routes") \in DOMAIN store
Discoverable(ref) ==
    \E i \in 1..Len(ListServices(store)) : IsInstance(ListServices(store)[i], ref)

\* C11: with DefaultHBInterval = 2 and DefaultTTL = 5, a registered service
\* whose heartbeat task has missed at most one cycle in a row holds its
\* presence, health and routes keys (none has expired) and is in the result
\* of ListServices, at every moment from the return of RegisterService on.
C11_OneMissTolerated ==
    \A ref \in DOMAIN svcs : MissesAtMost(ref, 1) => KeysHeld(ref) /\ Discoverable(ref)

\* A call of RegisterService has just returned.
RegisterReturned == ret'.op = "RegisterService" /\ ret' # ret
RoutesOf(st, ref) ==
    IF KeyOf(ref, "routes") \in DOMAIN st THEN st[KeyOf(ref, "routes")].val ELSE {}

\* C12: RegisterService returns the error and no Service exactly when the
\* registry already holds the (name, id) it generated, and then leaves the
\* registry, the store, the subscriptions and the scheduled tasks as they
\* were; otherwise it returns the new Service and no error, the registry
\* holds the entry for (name, id) (every other entry as before), and the
\* presence, health and routes of the service are in the store.
C12_RegisterOrDuplicate ==
    [][RegisterReturned =>
          LET ref == <<ret'.name, ret'.id>>
          IN  IF HasEntry(Services, ref)
              THEN /\ ret'.err = "service already exists"
                   /\ ret'.svc = << >>
                   /\ UNCHANGED <<Services, svcs, store, tasks, loops, reqs>>
              ELSE /\ ret'.err = ""
                   /\ ret'.svc = ref
                   /\ svcs'[ref].Name = ret'.name /\ svcs'[ref].Id = ret'.id
                   /\ HasEntry(Services', ref) /\ Services'[ref[1]][ref[2]] = ref
                   /\ \A other \in Refs \ {ref} :
                         HasEntry(Services', other) <=> HasEntry(Services, other)
                   /\ KeyOf(ref, "presence") \in DOMAIN store'
                   /\ store'[KeyOf(ref, "presence")] = [val |-> ret'.id, ttl |-> DefaultTTL]
                   /\ KeyOf(ref, "health") \in DOMAIN store'
                   /\ store'[KeyOf(ref, "health")].ttl = DefaultTTL
                   /\ UnmarshalService(store'[KeyOf(ref, "health")].val).Routes
                         = svcs'[ref].Routes
                   /\ \A i \in 1..Len(svcs'[ref].Routes) :
                         svcs'[ref].Routes[i] \in RoutesOf(store', ref)]_vars

\* The last call of RegisterService was refused as a duplicate while the
\* registry held one service, with its keys and its heartbeat task.
C12_Witness ==
    /\ ret.op = "RegisterService"
    /\ ret.err = "service already exists"
    /\ HasEntry(Services, <<ret.name, ret.id>>)
    /\ Cardinality(DOMAIN svcs) = 1
    /\ KeysHeld(<<ret.name, ret.id>>)
    /\ HeartbeatOf(<<ret.name, ret.id>>) # {}

\* C13: no instance ever has two invocations of its handler in progress,
\* whatever reaches it on its own topic and on the topic of its name.
C13_HandlerSerialized ==
    \A ref \in DOMAIN loops : Cardinality(loops[ref].busy) <= 1

\* Two instances of one name are inside their handlers at the same time,
\* one of them with further publications waiting in its subscription.
C13_Witness ==
    \E r1, r2 \in DOMAIN loops :
        /\ r1 # r2
        /\ loops[r1].busy # {} /\ loops[r2].busy # {}
        /\ loops[r1].inbox # << >>

\* What a step publishes, and the replies among it to request m.
NewlyPublished == published' \ published
RepliesTo(pubs, m) ==
    {p \in pubs : p.wire.ok /\ p.topic = reqs[m].msg.ResponseChannel}
\* The request sent in this step is subscribed to its response topic
\* "<channel>:response:<msgId>" and published on its channel.
RequestSubscribedAndPublished ==
    \A m \in DOMAIN reqs' \ DOMAIN reqs :
        /\ reqs'[m].sub = "open"
        /\ reqs'[m].msg.ResponseChannel = reqs'[m].msg.Channel \o <<"response", m>>
        /\ [topic |-> reqs'[m].msg.Channel, wire |-> MarshalMessage(reqs'[m].msg)]
              \in NewlyPublished
\* A handler that calls Respond publishes its reply.
ReplyPublished ==
    \A h \in handled' \ handled :
        (h.svc \in DOMAIN loops /\ loops[h.svc].handler = "echo") =>
            \E p \in NewlyPublished : p.topic = h.msg.ResponseChannel

\* C14 as stated: every request sent by Message is subscribed to its
\* response topic before it is published, no reply to it is ever published
\* while that topic has no subscriber, and requests and replies alike are
\* published.
C14_NoReplyWithoutSubscriber ==
    [][/\ RequestSubscribedAndPublished
       /\ ReplyPublished
       /\ \A m \in DOMAIN reqs : \A p \in RepliesTo(NewlyPublished, m) :
             reqs[m].sub = "open"]_vars

\* C14, amended: every request sent by Message is subscribed to its
\* response topic before it is published, so a reply to it is published
\* without a subscriber only after the waiter has forwarded an earlier reply
\* and closed the subscription; until then every reply reaches the
\* subscription.  Requests and replies alike are published.
C14_SubscribedUntilForwarded ==
    [][/\ RequestSubscribedAndPublished
       /\ ReplyPublished
       /\ \A m \in DOMAIN reqs : \A p \in RepliesTo(NewlyPublished, m) :
             \/ /\ reqs[m].sub = "open"
                /\ reqs'[m].inbox = Append(reqs[m].inbox, p.wire)
             \/ /\ reqs[m].sub = "closed"
                /\ reqs[m].waiter = "done"
                /\ \E i \in 1..Len(reqs[m].got) : ~reqs[m].got[i].nil]_vars

\* Two instances have replied to one request sent on the topic of their
\* name: the waiter forwarded one reply and closed the subscription, and
\* the other reply was published after that.
C14_Witness ==
    \E m \in DOMAIN reqs :
        /\ reqs[m].waiter = "done"
        /\ reqs[m].sub = "closed"
        /\ Cardinality(RepliesTo(published, m)) = 2
        /\ \E h \in handled : h.msg = reqs[m].msg /\ loops[h.svc].busy # {}

\* The real (non-nil) replies a caller has received for request m.
RealReplies(m) == {i \in 1..Len(reqs[m].got) : ~reqs[m].got[i].nil}

\* C15: the caller of a request receives at most one real reply on its
\* return channel, however many instances were handed the request and
\* called Respond.
C15_AtMostOneReply == \A m \in DOMAIN reqs : Cardinality(RealReplies(m)) <= 1

\* A caller that keeps receiving has one real reply, two instances having
\* published a reply each to its request.
C15_Witness ==
    \E m \in DOMAIN reqs :
        /\ reqs[m].limit = KeepReceiving
        /\ Cardinality(RealReplies(m)) = 1
        /\ Cardinality(RepliesTo(published, m)) = 2
        /\ Cardinality({h \in handled : h.msg = reqs[m].msg}) = 2

\* C16: when the caller of RPCWithTimeout keeps receiving from the return
\* channel, it receives nil, once, and not before the timeout has elapsed,
\* whether a real reply was received before it, is received after it, or
\* never comes; the channel carries at most two values, one nil and at
\* most one real reply.
KeepsReceiving(m) ==
    IF m \in DOMAIN reqs
    THEN reqs[m].kind = "RPCWithTimeout" /\ reqs[m].limit = KeepReceiving
    ELSE FALSE
Nils(m) == {i \in 1..Len(reqs[m].got) : reqs[m].got[i].nil}
AtMostNilAndReply ==
    \A m \in DOMAIN reqs :
        KeepsReceiving(m) =>
            /\ Cardinality(Nils(m)) <= 1
            /\ Cardinality(RealReplies(m)) <= 1
            /\ Len(reqs[m].got) <= 2
            /\ Nils(m) # {} => reqs[m].age >= reqs[m].timeout
NilReceived(m) ==
    IF running /\ m \in DOMAIN reqs THEN Nils(m) # {} ELSE ~running
C16_NilOnceAfterTimeout ==
    /\ []AtMostNilAndReply
    /\ \A m \in ReqIds : KeepsReceiving(m) ~> NilReceived(m)

\* The caller received nil first and the real reply after it.
C16_Witness ==
    \E m \in DOMAIN reqs :
        /\ KeepsReceiving(m)
        /\ Len(reqs[m].got) = 2
        /\ reqs[m].got[1].nil
        /\ ~reqs[m].got[2].nil
        /\ reqs[m].got[2].msg.Payload = reqs[m].msg.Payload

\* C17: a publication that cannot be unmarshalled into a Message is dropped
\* by the dispatch goroutine, which calls no handler for it and goes on,
\* and every well-formed message that reaches the subscription after it is
\* handed to the handler.
DropsUndecodable ==
    \A ref \in DOMAIN loops :
        /\ loops'[ref].pc # "done"
        /\ (loops[ref].inbox # << >> /\ loops'[ref].inbox = Tail(loops[ref].inbox)
              /\ ~Head(loops[ref].inbox).ok) =>
                 /\ handled' = handled
                 /\ loops'[ref].busy = loops[ref].busy
                 /\ loops'[ref].pc = "select"
QueuedBehindUndecodable(ref, m) ==
    IF ref \in DOMAIN loops /\ m \in DOMAIN reqs
    THEN \E i, j \in 1..Len(loops[ref].inbox) :
            /\ i < j
            /\ loops[ref].inbox[i] = Undecodable
            /\ loops[ref].inbox[j] = MarshalMessage(reqs[m].msg)
    ELSE FALSE
HandedToHandler(ref, m) ==
    IF m \in DOMAIN reqs THEN [svc |-> ref, msg |-> reqs[m].msg] \in handled ELSE FALSE
C17_UndecodableDropped ==
    /\ [][DropsUndecodable]_vars
    /\ \A h \in handled : \E p \in published : p.wire.ok /\ UnmarshalMessage(p.wire) = h.msg
    /\ \A ref \in Refs, m \in ReqIds :
          QueuedBehindUndecodable(ref, m) ~> HandedToHandler(ref, m)

\* An instance has dropped the undecodable publications made on both of
\* its topics and is now inside its handler with a request.
C17_Witness ==
    \E ref \in DOMAIN loops :
        /\ loops[ref].errors = 2
        /\ loops[ref].inbox = << >>
        /\ \E m \in DOMAIN reqs : loops[ref].busy = {reqs[m].msg}


\* C18: every live instance that has a route which is a prefix of the path
\* is a possible result of ResolveService(path), whatever its name and id:
\* for some value of the random index the call returns that instance.
C18_EveryLiveMatchResolvable ==
    \A path \in Paths : \A ref \in DOMAIN svcs :
        (Live(ref) /\ HasRouteFor(svcs[ref], path))
            => \E res \in Resolutions(path) : res.err = "" /\ IsInstance(res.svc, ref)

\* The dispatch goroutine of every instance that ListServices returns has
\* made its subscription.
SubscribedWhenDiscoverable ==
    \A ref \in DOMAIN loops : Discoverable(ref) => loops[ref].pc # "start"

\* A well-formed message published in this step on the unicast topic or the
\* name topic of an instance that has a handler and is discoverable is put
\* in the subscription of the instance's dispatch goroutine.
PublishedIsQueued ==
    \A p \in NewlyPublished : \A ref \in DOMAIN loops :
        (p.wire.ok /\ p.topic \in channels(svcs[ref]) /\ Discoverable(ref))
            => /\ Len(loops'[ref].inbox) = Len(loops[ref].inbox) + 1
               /\ loops'[ref].inbox[Len(loops'[ref].inbox)] = p.wire

\* C19: a service registered with a handler is never discoverable while its
\* dispatch goroutine has not subscribed, so that no message published on
\* the instance's unicast topic or name topic once it is discoverable (from
\* the return of RegisterService on) is lost: each reaches the subscription
\* its handler is fed from.
C19_SubscribedBeforeDiscoverable ==
    [](SubscribedWhenDiscoverable) /\ [][PublishedIsQueued]_vars

\* The entries of the local registry: the (name, id) pairs it holds.
Entries(reg) == {ref \in Refs : HasEntry(reg, ref)}

\* C20: DeleteService(svc) removes the local registry entry for
\* (svc.Name, svc.Id), and removes and changes no other entry.
C20_DeleteExactlyOne ==
    [][\A ref \in Refs :
          DeleteService(ref) =>
              /\ Entries(Services') = Entries(Services) \ {ref}
              /\ \A other \in Entries(Services') :
                    Services'[other[1]][other[2]] = Services[other[1]][other[2]]]_vars

====
